---- MODULE Spec2Model ----
(***************************************************************************)
(* State-machine model of the MicroPython driver micropython_bmpxxx for    *)
(* the Bosch BMP581, BMP585, BMP390 and BMP280 pressure sensors            *)
(* (src/micropython_bmpxxx/bmpxxx.py).                                     *)
(*                                                                         *)
(* One behaviour is one driver handle of one class on one I2C bus with one *)
(* device behind it: construction, then public property reads and writes,  *)
(* interleaved with the device refreshing its data registers.  Every       *)
(* action is one whole handler; the bus transactions it issues are kept in *)
(* `log`, the device registers in `mem`.                                   *)
(***************************************************************************)
EXTENDS Integers, Sequences, FiniteSets, TLC

(***************************************************************************)
(* Bounds of the model.                                                    *)
(***************************************************************************)
\* steps after the construction of a handle: public operations on it and
\* refreshes of the device's data registers
MaxOps == 2
\* distinct raw samples the device can place in its data registers
MaxSamples == 1
\* setter arguments are drawn from 0 .. MaxArg (8 and above is legal nowhere)
MaxArg == 8

(***************************************************************************)
(* Module constants (micropython const() names are compile-time constants  *)
(* of the whole module, so the bare names used in the subclasses and in    *)
(* the method bodies denote these values).                                 *)
(***************************************************************************)
STANDBY == 0
NORMAL == 1
FORCED == 2
NON_STOP == 3

OSR1 == 0
OSR2 == 1
OSR4 == 2
OSR8 == 3
OSR16 == 4
OSR32 == 5
OSR64 == 6
OSR128 == 7
OSR_SKIP == 5

COEF_0 == 0
COEF_1 == 1
COEF_3 == 2
COEF_7 == 3
COEF_15 == 4
COEF_31 == 5
COEF_63 == 6
COEF_127 == 7

BMP280_NORMAL_POWER == 3
BMP280_FORCED_POWER == 1

\* faulty variant: the default reference rounded to 1013 hPa
WORLD_AVERAGE_SEA_LEVEL_PRESSURE_rounded == 1013 * 100

\* WORLD_AVERAGE_SEA_LEVEL_PRESSURE = 1013.25 hPa, kept in units of 0.01 hPa
WORLD_AVERAGE_SEA_LEVEL_PRESSURE == 101325

\* 44330.77 m, the altitude at which the back-solve divides by zero, in cm
ALTITUDE_LIMIT == 4433077

Classes == {"BMP581", "BMP585", "BMP390", "BMP280"}

None == "None"

\* the `address` argument left at its default None, and an unresolved address
NoAddress == -1

(***************************************************************************)
(* Per-class data: I2C addresses, expected device id, legal value sets.    *)
(***************************************************************************)
I2C_ADDRESS_DEFAULT(c) ==
    CASE c = "BMP581" -> 71      \* 0x47
      [] c = "BMP585" -> 71      \* 0x47
      [] c = "BMP390" -> 127     \* 0x7f
      [] c = "BMP280" -> 119     \* 0x77

I2C_ADDRESS_SECONDARY(c) ==
    CASE c = "BMP581" -> 70      \* 0x46
      [] c = "BMP585" -> 70      \* 0x46
      [] c = "BMP390" -> 126     \* 0x7e
      [] c = "BMP280" -> 118     \* 0x76

\* faulty variant: BMP585.__init__ copied from BMP581 with the id left at 0x50
ExpectedDeviceId_copied(c) ==
    CASE c = "BMP581" -> 80
      [] c = "BMP585" -> 80
      [] c = "BMP390" -> 96
      [] c = "BMP280" -> 88

ExpectedDeviceId(c) ==
    CASE c = "BMP581" -> 80      \* 0x50
      [] c = "BMP585" -> 81      \* 0x51
      [] c = "BMP390" -> 96      \* 0x60
      [] c = "BMP280" -> 88      \* 0x58

\* faulty variant: BMP390 left with the BMP581 tuple, NON_STOP included
power_mode_values_inherited(c) ==
    CASE c \in {"BMP581", "BMP585", "BMP390"} -> {STANDBY, NORMAL, FORCED, NON_STOP}
      [] c = "BMP280" -> {STANDBY, FORCED, NORMAL}

power_mode_values(c) ==
    CASE c \in {"BMP581", "BMP585"} -> {STANDBY, NORMAL, FORCED, NON_STOP}
      [] c = "BMP390" -> {STANDBY, FORCED, NORMAL}
      [] c = "BMP280" -> {STANDBY, FORCED, NORMAL}

pressure_oversample_rate_values(c) ==
    CASE c \in {"BMP581", "BMP585"} ->
             {OSR1, OSR2, OSR4, OSR8, OSR16, OSR32, OSR64, OSR128}
      [] c = "BMP390" -> {OSR1, OSR2, OSR4, OSR8, OSR16, OSR32}
      [] c = "BMP280" -> {OSR1, OSR2, OSR4, OSR8, OSR16}

temperature_oversample_rate_values(c) ==
    CASE c \in {"BMP581", "BMP585"} ->
             {OSR1, OSR2, OSR4, OSR8, OSR16, OSR32, OSR64, OSR128}
      [] c = "BMP390" -> {OSR1, OSR2, OSR4, OSR8, OSR16, OSR32}
      [] c = "BMP280" -> {OSR1, OSR2, OSR4, OSR8, OSR16}

\* iir_coefficient_values is defined in BMP581 only and inherited everywhere
iir_coefficient_values(c) ==
    {COEF_0, COEF_1, COEF_3, COEF_7, COEF_15, COEF_31, COEF_63, COEF_127}

(***************************************************************************)
(* Register field descriptors: CBits(num_bits, register, start_bit,        *)
(* register_width) and RegisterStruct(register, "B"), resolved through the *)
(* class hierarchy (every subclass derives from BMP581).                   *)
(***************************************************************************)
CBits(num_bits, register, start_bit, width) ==
    [reg |-> register, bit |-> start_bit, bits |-> num_bits, len |-> width]

_device_id(c) ==
    CASE c \in {"BMP581", "BMP585"} -> CBits(8, 1, 0, 1)      \* 0x01
      [] c = "BMP390" -> CBits(8, 0, 0, 1)                    \* 0x00
      [] c = "BMP280" -> CBits(8, 208, 0, 1)                  \* 0xd0

_power_mode(c) ==
    CASE c \in {"BMP581", "BMP585"} -> CBits(2, 55, 0, 1)     \* _ODR_CONFIG 0x37
      [] c = "BMP390" -> CBits(2, 27, 4, 1)                   \* _PWR_CTRL 0x1b
      [] c = "BMP280" -> CBits(2, 244, 0, 1)                  \* control 0xF4

_temperature_oversample_rate(c) ==
    CASE c \in {"BMP581", "BMP585"} -> CBits(3, 54, 0, 1)     \* _OSR_CONF 0x36
      [] c = "BMP390" -> CBits(3, 28, 3, 1)                   \* 0x1c
      [] c = "BMP280" -> CBits(3, 244, 5, 1)                  \* 0xF4

_pressure_oversample_rate(c) ==
    CASE c \in {"BMP581", "BMP585"} -> CBits(3, 54, 3, 1)     \* _OSR_CONF 0x36
      [] c = "BMP390" -> CBits(3, 28, 0, 1)                   \* 0x1c
      [] c = "BMP280" -> CBits(3, 244, 2, 1)                  \* 0xF4

\* BMP280 does not override _pressure_enabled: it inherits the BMP581 field
_pressure_enabled(c) ==
    CASE c \in {"BMP581", "BMP585", "BMP280"} -> CBits(1, 54, 6, 1)   \* 0x36
      [] c = "BMP390" -> CBits(1, 27, 0, 1)                           \* 0x1b

_iir_coefficient(c) ==
    CASE c \in {"BMP581", "BMP585"} -> CBits(3, 49, 3, 1)     \* _DSP_IIR 0x31
      [] c = "BMP390" -> CBits(3, 31, 1, 1)                   \* _CONFIG 0x1f
      [] c = "BMP280" -> CBits(3, 245, 0, 1)                  \* _CONFIG 0xf5

\* defined in BMP581 only: BMP390 and BMP280 inherit the field at 0x31
_iir_temp_coefficient(c) == CBits(3, 49, 0, 1)

\* BMP280 only
_control_register == CBits(8, 244, 0, 1)
_config_register == CBits(8, 245, 0, 1)
_d == CBits(48, 247, 0, 6)

_temperature(c) ==
    CASE c \in {"BMP581", "BMP585", "BMP280"} -> CBits(24, 29, 0, 3)  \* 0x1D
      [] c = "BMP390" -> CBits(24, 7, 0, 3)                           \* 0x07

_pressure(c) ==
    CASE c \in {"BMP581", "BMP585", "BMP280"} -> CBits(24, 32, 0, 3)  \* 0x20
      [] c = "BMP390" -> CBits(24, 4, 0, 3)                           \* 0x04

(***************************************************************************)
(* The device behind the bus: a register file.  Regs are the identity,     *)
(* configuration and data addresses the four classes can touch; mem holds  *)
(* them.  The calibration registers are read-only and never change: the   *)
(* BMP390's hold the fixed CalByte, the BMP280's (0x88 .. 0x9f, part of    *)
(* mem) one of the trimmings of Calibrations.                              *)
(***************************************************************************)
Regs == {0, 1, 208} \cup (4 .. 9) \cup (27 .. 34) \cup {48, 49, 54, 55}
          \cup (136 .. 159) \cup (244 .. 252)

\* calibration registers (manufacturer programmed, read-only on the chip)
CalRegs(c) ==
    CASE c = "BMP390" -> 49 .. 69
      [] c = "BMP280" -> 136 .. 159
      [] OTHER -> {}

\* the bytes burnt into the BMP390's calibration registers
CalByte(r) == (r * 37 + 11) % 256

\* BMP280 trimmings: "trimmed" has dig_t2 = -32768, dig_p1 = 32768,
\* dig_p3 = -32768 and the other words 0; "blank_p1" is the same with
\* dig_p1 = 0 (an unprogrammed word)
Calibrations == {"trimmed", "blank_p1"}

\* the byte at calibration register r (0x88 .. 0x9f) of a BMP280 trimming
CalByte280(cal, r) ==
    CASE r = 139 -> 128                                   \* 0x8b dig_t2 msb
      [] r = 143 -> IF cal = "blank_p1" THEN 0 ELSE 128   \* 0x8f dig_p1 msb
      [] r = 147 -> 128                                   \* 0x93 dig_p3 msb
      [] OTHER -> 0

Pow2(n) == 2 ^ n

\* bytes a device-ID register may hold: the four chips' ids and a foreign one
DeviceIds == {80, 81, 96, 88, 0}

\* raw 24-bit samples the device produces; sample 0 is the reset content
SampleP(i) == (i * 11000013) % Pow2(24)
SampleT(i) == (i * 7364608) % Pow2(24)

\* little-endian byte k (0 = least significant) of a raw value
ByteOf(raw, k) == (raw \div Pow2(8 * k)) % 256

\* first data register of the class's pressure and temperature blocks
PressDataReg(c) ==
    CASE c \in {"BMP581", "BMP585"} -> 32
      [] c = "BMP390" -> 4
      [] c = "BMP280" -> 247

TempDataReg(c) ==
    CASE c \in {"BMP581", "BMP585"} -> 29
      [] c = "BMP390" -> 7
      [] c = "BMP280" -> 250

\* The data registers after the device stored sample i: BMP58x and BMP390
\* put the least significant byte at the lowest address, BMP280 the most
\* significant one (0xF7 press_msb .. 0xF9 press_xlsb, 0xFA temp_msb ..).
DataBytes(c, m, i) ==
    [r \in Regs |->
        IF r \in PressDataReg(c) .. (PressDataReg(c) + 2)
        THEN ByteOf(SampleP(i), IF c = "BMP280" THEN 2 - (r - PressDataReg(c))
                                                ELSE r - PressDataReg(c))
        ELSE IF r \in TempDataReg(c) .. (TempDataReg(c) + 2)
        THEN ByteOf(SampleT(i), IF c = "BMP280" THEN 2 - (r - TempDataReg(c))
                                                ELSE r - TempDataReg(c))
        ELSE m[r]]

\* chip after reset: configuration fields zero, identity and calibration set
ResetMem(c, id, cal) ==
    [r \in Regs |->
        IF r = _device_id(c).reg THEN id
        ELSE IF r \in CalRegs(c)
        THEN IF c = "BMP280" THEN CalByte280(cal, r) ELSE CalByte(r)
        ELSE 0]

(***************************************************************************)
(* i2c_helpers.CBits / RegisterStruct: descriptor read and write.  A read  *)
(* is one readfrom_mem of the byte span; a write reads the span, merges    *)
(* the field and writes the span back.                                     *)
(***************************************************************************)
\* the span as an integer, lowest address least significant (len <= 3)
SpanValue(m, f) ==
    IF f.len = 1 THEN m[f.reg]
    ELSE m[f.reg] + 256 * m[f.reg + 1] + 65536 * m[f.reg + 2]

CBitsGet(m, f) == (SpanValue(m, f) \div Pow2(f.bit)) % Pow2(f.bits)

\* one-byte span with the field replaced by v
CBitsMerge(m, f, v) ==
    m[f.reg] - (CBitsGet(m, f) * Pow2(f.bit)) + ((v % Pow2(f.bits)) * Pow2(f.bit))

CBitsSet(m, f, v) == [m EXCEPT ![f.reg] = CBitsMerge(m, f, v)]

\* the 6-byte span of _d, in register order
SpanBytes(m, f) == [k \in 1 .. f.len |-> m[f.reg + k - 1]]

(***************************************************************************)
(* Bus transactions.  A bus state is [mem, log]; log entries are           *)
(* [t, a, v]: probe of address a (v = 1 acknowledged), read of v bytes at  *)
(* register a, write of byte v to register a, sleep of v milliseconds.     *)
(***************************************************************************)
Probe(addr, ok) == [t |-> "probe", a |-> addr, v |-> IF ok THEN 1 ELSE 0]
Read(f) == [t |-> "read", a |-> f.reg, v |-> f.len]
Write(reg, byte) == [t |-> "write", a |-> reg, v |-> byte]
Sleep(ms) == [t |-> "sleep", a |-> 0, v |-> ms]

\* steps of a handler body
R(f) == [k |-> "r", f |-> f, v |-> 0]
W(f, v) == [k |-> "w", f |-> f, v |-> v]
S(ms) == [k |-> "s", f |-> CBits(0, 0, 0, 0), v |-> ms]

Step(b, s) ==
    CASE s.k = "r" -> [mem |-> b.mem, log |-> Append(b.log, Read(s.f))]
      [] s.k = "w" -> [mem |-> CBitsSet(b.mem, s.f, s.v),
                       log |-> b.log \o <<Read(s.f),
                                          Write(s.f.reg, CBitsMerge(b.mem, s.f, s.v))>>]
      [] s.k = "s" -> [mem |-> b.mem, log |-> Append(b.log, Sleep(s.v))]

RECURSIVE Run(_, _)
Run(b, steps) ==
    IF steps = <<>> THEN b ELSE Run(Step(b, Head(steps)), Tail(steps))

\* a handler's outcome: the bus state it leaves, its return value, and the
\* exception it raised (None when it returned)
Outcome(b, ret, exc) == [mem |-> b.mem, log |-> b.log, ret |-> ret, exc |-> exc]
Bus(o) == [mem |-> o.mem, log |-> o.log]

(***************************************************************************)
(* Configuration surface: getters return the name found in the class's     *)
(* name table at the index read from the register field (IndexError past   *)
(* the table's end); setters validate against the class's legal set and    *)
(* then write the field.                                                   *)
(***************************************************************************)
NameAt(names, idx) ==
    IF idx < Len(names) THEN [ret |-> names[idx + 1], exc |-> None]
                        ELSE [ret |-> None, exc |-> "IndexError"]

\* faulty variant: the field written back after it is read
Getter_write_back(b, f, names) ==
    LET b1 == Step(b, W(f, CBitsGet(b.mem, f)))
        n  == NameAt(names, CBitsGet(b.mem, f))
    IN  Outcome(b1, n.ret, n.exc)

Getter(b, f, names) ==
    LET b1 == Step(b, R(f))
        n  == NameAt(names, CBitsGet(b.mem, f))
    IN  Outcome(b1, n.ret, n.exc)

power_mode_names(c) ==
    CASE c \in {"BMP581", "BMP585"} -> <<"STANDBY", "NORMAL", "FORCED", "NON_STOP">>
      [] c = "BMP390" -> <<"STANDBY", "FORCED", "NORMAL">>
      [] c = "BMP280" -> <<"STANDBY", "FORCED", "FORCED", "NORMAL">>

oversample_rate_names(c) ==
    CASE c \in {"BMP581", "BMP585"} ->
             <<"OSR1", "OSR2", "OSR4", "OSR8", "OSR16", "OSR32", "OSR64", "OSR128">>
      [] c = "BMP390" -> <<"OSR1", "OSR2", "OSR4", "OSR8", "OSR16", "OSR32">>
      [] c = "BMP280" -> <<"OSR_SKIP", "OSR1", "OSR2", "OSR4", "OSR8", "OSR16">>

iir_coefficient_names ==
    <<"COEF_0", "COEF_1", "COEF_3", "COEF_7", "COEF_15", "COEF_31", "COEF_63", "COEF_127">>

power_mode_get(c, b) == Getter(b, _power_mode(c), power_mode_names(c))

pressure_oversample_rate_get(c, b) ==
    Getter(b, _pressure_oversample_rate(c), oversample_rate_names(c))

temperature_oversample_rate_get(c, b) ==
    Getter(b, _temperature_oversample_rate(c), oversample_rate_names(c))

iir_coefficient_get(c, b) == Getter(b, _iir_coefficient(c), iir_coefficient_names)

\* bitwise AND of two bytes
RECURSIVE BitAnd(_, _)
BitAnd(x, y) ==
    IF x = 0 \/ y = 0 THEN 0
    ELSE (x % 2) * (y % 2) + 2 * BitAnd(x \div 2, y \div 2)

\* BMP280.power_mode.setter's remap: two consecutive `if`s, not if/elif
power_mode_remap_bmp280(value) ==
    LET v1 == IF value = 1 THEN BMP280_NORMAL_POWER ELSE value
    IN  IF v1 = 3 THEN BMP280_FORCED_POWER ELSE v1

power_mode_set(c, b, value) ==
    IF value \notin power_mode_values(c)
    THEN Outcome(b, None, "ValueError")
    ELSE IF c = "BMP280"
         THEN Outcome(Step(b, W(_power_mode(c), power_mode_remap_bmp280(value))),
                      None, None)
         ELSE Outcome(Step(b, W(_power_mode(c), value)), None, None)

\* faulty variant: the canonical value written without the BMP280 remap
_translate_osr_bmp280_identity(osr_value) == osr_value

\* BMP280._translate_osr_bmp280: osr_map.get(osr_value, 0)
_translate_osr_bmp280(osr_value) ==
    CASE osr_value = OSR1 -> 1
      [] osr_value = OSR2 -> 2
      [] osr_value = OSR4 -> 3
      [] osr_value = OSR8 -> 4
      [] osr_value = OSR16 -> 5
      [] OTHER -> 0

\* faulty variant: the field written into an otherwise cleared control
\* register, the kept bits dropped
oversample_rate_set_bmp280_unmasked(b, value, keep, shift) ==
    LET b1 == Step(b, R(_control_register))
        new == _translate_osr_bmp280(value) * Pow2(shift)
    IN  Run(b1, <<W(_config_register, 0), W(_control_register, new)>>)

\* BMP280 oversample setters: read the control register, replace one field
\* (keep is the mask of the bits kept, shift the field's position), write
\* 0x00 to the config register, write the control register.
oversample_rate_set_bmp280(b, value, keep, shift) ==
    LET b1 == Step(b, R(_control_register))
        current_control_register == CBitsGet(b.mem, _control_register)
        new == BitAnd(current_control_register, keep)
                  + _translate_osr_bmp280(value) * Pow2(shift)
    IN  Run(b1, <<W(_config_register, 0), W(_control_register, new)>>)

\* faulty variant: the membership test left out of the setter
pressure_oversample_rate_set_unchecked(c, b, value) ==
    IF c = "BMP280"
    THEN Outcome(oversample_rate_set_bmp280(b, value, 227, 2), None, None)
    ELSE Outcome(Step(b, W(_pressure_oversample_rate(c), value)), None, None)

pressure_oversample_rate_set(c, b, value) ==
    IF value \notin pressure_oversample_rate_values(c)
    THEN Outcome(b, None, "ValueError")
    ELSE IF c = "BMP280"
         THEN Outcome(oversample_rate_set_bmp280(b, value, 227, 2), None, None)
         ELSE Outcome(Step(b, W(_pressure_oversample_rate(c), value)), None, None)

temperature_oversample_rate_set(c, b, value) ==
    IF value \notin temperature_oversample_rate_values(c)
    THEN Outcome(b, None, "ValueError")
    ELSE IF c = "BMP280"
         THEN Outcome(oversample_rate_set_bmp280(b, value, 31, 5), None, None)
         ELSE Outcome(Step(b, W(_temperature_oversample_rate(c), value)), None, None)

\* faulty variant: the filter fields written in whatever mode the device is
\* in, without the switch to STANDBY and back
iir_coefficient_set_in_place(c, b, value) ==
    IF value \notin iir_coefficient_values(c)
    THEN Outcome(b, None, "ValueError")
    ELSE IF c = "BMP390"
    THEN Outcome(Step(b, W(_iir_coefficient(c), value)), None, None)
    ELSE Outcome(Run(b, <<W(_iir_coefficient(c), value),
                          W(_iir_temp_coefficient(c), value)>>), None, None)

\* faulty variant: the temperature-channel filter left out of the setter
iir_coefficient_set_pressure_only(c, b, value) ==
    IF value \notin iir_coefficient_values(c)
    THEN Outcome(b, None, "ValueError")
    ELSE IF c = "BMP390"
    THEN Outcome(Step(b, W(_iir_coefficient(c), value)), None, None)
    ELSE LET b1 == Step(b, R(_power_mode(c)))
             original_mode == CBitsGet(b.mem, _power_mode(c))
             o2 == IF original_mode # STANDBY
                   THEN power_mode_set(c, b1, STANDBY)
                   ELSE Outcome(b1, None, None)
         IN  IF o2.exc # None THEN o2
             ELSE power_mode_set(c, Step(Bus(o2), W(_iir_coefficient(c), value)),
                                 original_mode)

\* BMP581.iir_coefficient.setter (used by BMP581, BMP585 and BMP280): save
\* the mode field, go to STANDBY through the class's power_mode setter, write
\* both filter fields, restore through the class's power_mode setter (whose
\* exception, if any, ends the call).  BMP390 overrides it with one write.
iir_coefficient_set(c, b, value) ==
    IF value \notin iir_coefficient_values(c)
    THEN Outcome(b, None, "ValueError")
    ELSE IF c = "BMP390"
    THEN Outcome(Step(b, W(_iir_coefficient(c), value)), None, None)
    ELSE LET b1 == Step(b, R(_power_mode(c)))
             original_mode == CBitsGet(b.mem, _power_mode(c))
             o2 == IF original_mode # STANDBY
                   THEN power_mode_set(c, b1, STANDBY)
                   ELSE Outcome(b1, None, None)
         IN  IF o2.exc # None THEN o2
             ELSE LET b3 == Run(Bus(o2), <<W(_iir_coefficient(c), value),
                                           W(_iir_temp_coefficient(c), value)>>)
                  IN  power_mode_set(c, b3, original_mode)

(***************************************************************************)
(* Readings.  Compensated values are floating point; a reading is kept as  *)
(* the term [kind, p, t] of the raw counts it was computed from:           *)
(*   linear  p = sign-extended raw pressure (pressure = p / 6400 hPa),     *)
(*           t = sign-extended raw temperature (temperature = t / 65536),  *)
(*   bmp390  polynomial of raw pressure p and raw temperature t,           *)
(*   bmp280  polynomial of raw pressure p and of t_fine of raw temp. t,    *)
(*   zero    the integer 0 returned by the BMP280 division guard.          *)
(***************************************************************************)
\* self.t_fine, the attribute the BMP280 compensation stores
VARIABLE t_fine

Reading(kind, p, t) == [kind |-> kind, p |-> p, t |-> t]

\* faulty variant: the sign bit tested at position bits, which a bits-wide
\* value never has set
_twos_comp_bit_too_high(val, bits) ==
    IF (val \div Pow2(bits)) % 2 # 0 THEN val - Pow2(bits) ELSE val

_twos_comp(val, bits) ==
    IF (val \div Pow2(bits - 1)) % 2 # 0 THEN val - Pow2(bits) ELSE val

Cal8(reg) == CBits(8, reg, 0, 1)

ReadsOf(regs) == [i \in 1 .. Len(regs) |-> R(Cal8(regs[i]))]

\* registers read, in order, by BMP390._calculate_temperature_compensation
\* (par_t1, par_t2: msb then lsb; par_t3: the byte is read twice)
TempCalReads390 == <<50, 49, 52, 51, 53, 53>>

\* ... and by BMP390._calculate_pressure_compensation (par_p6, par_p7,
\* par_p8, par_p5, par_p2, par_p3, par_p4, par_p1, par_p9, par_p10, par_p11)
PressCalReads390 ==
    <<63, 62, 64, 64, 65, 65, 61, 60, 57, 56, 58, 58, 59, 59, 55, 54,
      67, 66, 68, 68, 69, 69>>

\* BMP280._calculate_temperature_compensation_bmp280: dig_t1, dig_t2,
\* dig_t1, dig_t1, dig_t3 (msb then lsb each)
TempCalReads280 == <<137, 136, 139, 138, 137, 136, 137, 136, 141, 140>>

\* BMP280._calculate_pressure_compensation_bmp280 up to the guard: dig_p6,
\* dig_p5, dig_p4, dig_p3, dig_p2, dig_p1; after it: dig_p9, dig_p8, dig_p7
PressCalReads280 == <<153, 152, 151, 150, 149, 148, 147, 146, 145, 144, 143, 142>>
PressCalReads280Tail == <<159, 158, 157, 156, 155, 154>>

_combine_unsigned(msb, lsb) == (msb * 256 + lsb) % 65536

_combine_signed(msb, lsb) ==
    LET combined == msb * 256 + lsb
    IN  IF (combined \div 32768) % 2 = 1 THEN combined - 65536 ELSE combined

dig_t1(m) == _combine_unsigned(m[137], m[136])
dig_t2(m) == _combine_signed(m[139], m[138])
dig_t3(m) == _combine_signed(m[141], m[140])
dig_p1(m) == _combine_unsigned(m[143], m[142])
dig_p2(m) == _combine_signed(m[145], m[144])
dig_p3(m) == _combine_signed(m[147], m[146])
dig_p4(m) == _combine_signed(m[149], m[148])
dig_p5(m) == _combine_signed(m[151], m[150])
dig_p6(m) == _combine_signed(m[153], m[152])
dig_p7(m) == _combine_signed(m[155], m[154])
dig_p8(m) == _combine_signed(m[157], m[156])
dig_p9(m) == _combine_signed(m[159], m[158])

\* BMP390 calibration accessors over the registers m (0x31 .. 0x45)
par_t1(m) ==
    LET msb_value == m[50]
        lsb_value == m[49]
    IN  (msb_value * 256 + lsb_value) % 65536

par_t2(m) ==
    LET msb_value == m[52]
        lsb_value == m[51]
    IN  (msb_value * 256 + lsb_value) % 65536

par_t3(m) == IF m[53] <= 127 THEN m[53] ELSE m[53] - 256

par_p1(m) ==
    LET msb_value == m[55]
        lsb_value == m[54]
        combined_value == msb_value * 256 + lsb_value
    IN  IF combined_value >= 32768 THEN combined_value - 65536 ELSE combined_value

par_p2(m) ==
    LET msb_value == m[57]
        lsb_value == m[56]
        combined_value == msb_value * 256 + lsb_value
    IN  IF combined_value >= 32768 THEN combined_value - 65536 ELSE combined_value

par_p3(m) == IF m[58] <= 127 THEN m[58] ELSE m[58] - 256

par_p4(m) == IF m[59] <= 127 THEN m[59] ELSE m[59] - 256

par_p5(m) ==
    LET msb_value == m[61]
        lsb_value == m[60]
    IN  msb_value * 256 + lsb_value

par_p6(m) ==
    LET msb_value == m[63]
        lsb_value == m[62]
    IN  msb_value * 256 + lsb_value

par_p7(m) == IF m[64] <= 127 THEN m[64] ELSE m[64] - 256

par_p8(m) == IF m[65] <= 127 THEN m[65] ELSE m[65] - 256

\* faulty variant: par_p9 combined like par_p5, without the sign conversion
par_p9_unsigned(m) ==
    LET msb_value == m[67]
        lsb_value == m[66]
    IN  msb_value * 256 + lsb_value

par_p9(m) ==
    LET msb_value == m[67]
        lsb_value == m[66]
        combined_value == msb_value * 256 + lsb_value
    IN  IF combined_value >= 32768 THEN combined_value - 65536 ELSE combined_value

par_p10(m) == IF m[68] <= 127 THEN m[68] ELSE m[68] - 256

par_p11(m) == IF m[69] <= 127 THEN m[69] ELSE m[69] - 256

\* the calibration accessors of a class, by name
CalibrationNames(c) ==
    CASE c = "BMP390" ->
             {"par_t1", "par_t2", "par_t3", "par_p1", "par_p2", "par_p3", "par_p4",
              "par_p5", "par_p6", "par_p7", "par_p8", "par_p9", "par_p10", "par_p11"}
      [] c = "BMP280" ->
             {"dig_t1", "dig_t2", "dig_t3", "dig_p1", "dig_p2", "dig_p3", "dig_p4",
              "dig_p5", "dig_p6", "dig_p7", "dig_p8", "dig_p9"}
      [] OTHER -> {}

Calibration(name, m) ==
    CASE name = "par_t1" -> par_t1(m) [] name = "par_t2" -> par_t2(m)
      [] name = "par_t3" -> par_t3(m) [] name = "par_p1" -> par_p1(m)
      [] name = "par_p2" -> par_p2(m) [] name = "par_p3" -> par_p3(m)
      [] name = "par_p4" -> par_p4(m) [] name = "par_p5" -> par_p5(m)
      [] name = "par_p6" -> par_p6(m) [] name = "par_p7" -> par_p7(m)
      [] name = "par_p8" -> par_p8(m) [] name = "par_p9" -> par_p9(m)
      [] name = "par_p10" -> par_p10(m) [] name = "par_p11" -> par_p11(m)
      [] name = "dig_t1" -> dig_t1(m) [] name = "dig_t2" -> dig_t2(m)
      [] name = "dig_t3" -> dig_t3(m) [] name = "dig_p1" -> dig_p1(m)
      [] name = "dig_p2" -> dig_p2(m) [] name = "dig_p3" -> dig_p3(m)
      [] name = "dig_p4" -> dig_p4(m) [] name = "dig_p5" -> dig_p5(m)
      [] name = "dig_p6" -> dig_p6(m) [] name = "dig_p7" -> dig_p7(m)
      [] name = "dig_p8" -> dig_p8(m) [] name = "dig_p9" -> dig_p9(m)

\* Floats whose value is m * 2^e with a small m (every float the BMP280
\* compensation computes up to its guard, for the trimmings of
\* Calibrations, is one): sums, products and divisions by a power of two
\* are exact on them, as they are in binary floating point.
RECURSIVE Dyadic(_, _)
Dyadic(m, e) ==
    IF m = 0 THEN [m |-> 0, e |-> 0]
    ELSE IF m % 2 = 0 THEN Dyadic(m \div 2, e + 1)
    ELSE [m |-> m, e |-> e]

Float(n) == Dyadic(n, 0)
FMul(x, y) == Dyadic(x.m * y.m, x.e + y.e)
\* x / 2^k
FDivPow2(x, k) == Dyadic(x.m, x.e - k)
FAdd(x, y) ==
    LET e == IF x.e < y.e THEN x.e ELSE y.e
    IN  IF x.m = 0 THEN y
        ELSE IF y.m = 0 THEN x
        ELSE Dyadic(x.m * Pow2(x.e - e) + y.m * Pow2(y.e - e), e)
FSub(x, y) == FAdd(x, Dyadic(0 - y.m, y.e))
\* int(x): truncation towards zero
FInt(x) ==
    IF x.e >= 0 THEN x.m * Pow2(x.e)
    ELSE IF x.m >= 0 THEN x.m \div Pow2(0 - x.e)
    ELSE 0 - ((0 - x.m) \div Pow2(0 - x.e))

\* int(var1 + var2) of _calculate_temperature_compensation_bmp280
\* (16384 = 2^14, 1024 = 2^10, 131072 = 2^17, 8192 = 2^13)
t_fine_bmp280(m, raw_temp) ==
    LET var1 == FMul(FSub(FDivPow2(Float(raw_temp), 14), FDivPow2(Float(dig_t1(m)), 10)),
                     Float(dig_t2(m)))
        d == FSub(FDivPow2(Float(raw_temp), 17), FDivPow2(Float(dig_t1(m)), 13))
        var2 == FMul(FMul(d, d), Float(dig_t3(m)))
    IN  FInt(FAdd(var1, var2))

\* var1 of _calculate_pressure_compensation_bmp280 as the guard tests it
\* (524288 = 2^19, 32768 = 2^15)
var1_bmp280(m, t_fine_value) ==
    LET v0 == FSub(FDivPow2(Float(t_fine_value), 1), Float(64000))
        v1 == FDivPow2(FAdd(FDivPow2(FMul(FMul(Float(dig_p3(m)), v0), v0), 19),
                            FMul(Float(dig_p2(m)), v0)), 19)
    IN  FMul(FAdd(Float(1), FDivPow2(v1, 15)), Float(dig_p1(m)))

\* faulty variant: the 48-bit value taken most significant byte first, so
\* that (raw_data >> 8k) & 0xFF is the byte at 0xFC - k
_get_raw_temp_pressure_msb_first(m) ==
    LET raw_data == SpanBytes(m, _d)
        p_msb == raw_data[6]
        p_lsb == raw_data[5]
        p_xlsb == raw_data[4]
        t_msb == raw_data[3]
        t_lsb == raw_data[2]
        t_xlsb == raw_data[1]
    IN  [t_raw |-> t_msb * 4096 + t_lsb * 16 + (t_xlsb \div 16),
         p_raw |-> p_msb * 4096 + p_lsb * 16 + (p_xlsb \div 16)]

\* BMP280._get_raw_temp_pressure: _d is read lowest address least
\* significant, so (raw_data >> 8k) & 0xFF is the byte at 0xF7 + k
_get_raw_temp_pressure(m) ==
    LET raw_data == SpanBytes(m, _d)
        p_msb == raw_data[1]
        p_lsb == raw_data[2]
        p_xlsb == raw_data[3]
        t_msb == raw_data[4]
        t_lsb == raw_data[5]
        t_xlsb == raw_data[6]
    IN  [t_raw |-> t_msb * 4096 + t_lsb * 16 + (t_xlsb \div 16),
         p_raw |-> p_msb * 4096 + p_lsb * 16 + (p_xlsb \div 16)]

\* t_fine as left by a temperature compensation of raw temperature raw_temp
T_fine(raw_temp) == <<"t_fine", raw_temp>>
\* t_fine = 0 as assigned at the end of BMP280.__init__
T_fineZero == <<"int", 0>>

\* the guard "if var1 == 0.0" for the registers m
Var1IsZero(m) ==
    var1_bmp280(m, t_fine_bmp280(m, _get_raw_temp_pressure(m).t_raw)).m = 0

\* faulty variant: the calibration constants kept from an earlier call, so
\* that a temperature read fetches only the data registers
temperature_cached_calibration(c, b) ==
    CASE c \in {"BMP581", "BMP585"} ->
             Outcome(Step(b, R(_temperature(c))),
                     Reading("linear", 0, _twos_comp(CBitsGet(b.mem, _temperature(c)), 24)),
                     None)
      [] c = "BMP390" ->
             Outcome(Run(b, <<R(_temperature(c))>>),
                     Reading("bmp390", 0, CBitsGet(b.mem, _temperature(c))), None)
      [] c = "BMP280" ->
             Outcome(Run(b, <<R(_d)>>),
                     Reading("bmp280", 0, _get_raw_temp_pressure(b.mem).t_raw), None)

temperature(c, b) ==
    CASE c \in {"BMP581", "BMP585"} ->
             Outcome(Step(b, R(_temperature(c))),
                     Reading("linear", 0, _twos_comp(CBitsGet(b.mem, _temperature(c)), 24)),
                     None)
      [] c = "BMP390" ->
             Outcome(Run(b, <<R(_temperature(c))>> \o ReadsOf(TempCalReads390)),
                     Reading("bmp390", 0, CBitsGet(b.mem, _temperature(c))), None)
      [] c = "BMP280" ->
             Outcome(Run(b, <<R(_d)>> \o ReadsOf(TempCalReads280)),
                     Reading("bmp280", 0, _get_raw_temp_pressure(b.mem).t_raw), None)

\* faulty variant: the BMP280 compensation without its "var1 == 0.0" guard,
\* so that the division by var1 is reached
pressure_unguarded(c, b) ==
    CASE c \in {"BMP581", "BMP585"} ->
             Outcome(Step(b, R(_pressure(c))),
                     Reading("linear", _twos_comp(CBitsGet(b.mem, _pressure(c)), 24), 0),
                     None)
      [] c = "BMP390" ->
             Outcome(Run(b, <<R(_pressure(c)), R(_temperature(c))>>
                              \o ReadsOf(TempCalReads390) \o ReadsOf(PressCalReads390)),
                     Reading("bmp390", CBitsGet(b.mem, _pressure(c)),
                                       CBitsGet(b.mem, _temperature(c))), None)
      [] c = "BMP280" ->
             LET raw == _get_raw_temp_pressure(b.mem)
                 head == <<R(_d)>> \o ReadsOf(TempCalReads280) \o ReadsOf(PressCalReads280)
             IN  IF Var1IsZero(b.mem)
                 THEN Outcome(Run(b, head), None, "ZeroDivisionError")
                 ELSE Outcome(Run(b, head \o ReadsOf(PressCalReads280Tail)),
                              Reading("bmp280", raw.p_raw, raw.t_raw), None)

\* faulty variant: BMP280 pressure compensated with the t_fine stored by an
\* earlier call instead of the temperature read in this call
pressure_stored_t_fine(c, b) ==
    CASE c \in {"BMP581", "BMP585"} ->
             Outcome(Step(b, R(_pressure(c))),
                     Reading("linear", _twos_comp(CBitsGet(b.mem, _pressure(c)), 24), 0),
                     None)
      [] c = "BMP390" ->
             Outcome(Run(b, <<R(_pressure(c)), R(_temperature(c))>>
                              \o ReadsOf(TempCalReads390) \o ReadsOf(PressCalReads390)),
                     Reading("bmp390", CBitsGet(b.mem, _pressure(c)),
                                       CBitsGet(b.mem, _temperature(c))), None)
      [] c = "BMP280" ->
             LET raw == _get_raw_temp_pressure(b.mem)
                 head == <<R(_d)>> \o ReadsOf(PressCalReads280)
                 stored == IF t_fine[1] = "int" THEN t_fine[2]
                           ELSE t_fine_bmp280(b.mem, t_fine[2])
             IN  IF var1_bmp280(b.mem, stored).m = 0
                 THEN Outcome(Run(b, head), Reading("zero", 0, 0), None)
                 ELSE Outcome(Run(b, head \o ReadsOf(PressCalReads280Tail)),
                              Reading("bmp280", raw.p_raw, t_fine[2]), None)

pressure(c, b) ==
    CASE c \in {"BMP581", "BMP585"} ->
             Outcome(Step(b, R(_pressure(c))),
                     Reading("linear", _twos_comp(CBitsGet(b.mem, _pressure(c)), 24), 0),
                     None)
      [] c = "BMP390" ->
             Outcome(Run(b, <<R(_pressure(c)), R(_temperature(c))>>
                              \o ReadsOf(TempCalReads390) \o ReadsOf(PressCalReads390)),
                     Reading("bmp390", CBitsGet(b.mem, _pressure(c)),
                                       CBitsGet(b.mem, _temperature(c))), None)
      [] c = "BMP280" ->
             LET raw == _get_raw_temp_pressure(b.mem)
                 head == <<R(_d)>> \o ReadsOf(TempCalReads280) \o ReadsOf(PressCalReads280)
             IN  IF Var1IsZero(b.mem)
                 THEN Outcome(Run(b, head), Reading("zero", 0, 0), None)
                 ELSE Outcome(Run(b, head \o ReadsOf(PressCalReads280Tail)),
                              Reading("bmp280", raw.p_raw, raw.t_raw), None)

\* faulty variant: the compensation leaves self.t_fine as the earlier call
\* left it
t_fine_after_stale(c, m, old) == old

\* self.t_fine after a temperature or pressure call (BMP280 only stores it)
t_fine_after(c, m, old) ==
    IF c = "BMP280" THEN T_fine(_get_raw_temp_pressure(m).t_raw) ELSE old

(***************************************************************************)
(* Altitude / sea-level-pressure model.  The stored reference is either a  *)
(* number the caller stored (lit, in 0.01 hPa) or the value back-solved    *)
(* from a pressure reading and an altitude (from = <<reading, altitude>>). *)
(***************************************************************************)
Lit(v) == [lit |-> v, from |-> <<>>]
BackSolved(reading, alt) == [lit |-> 0, from |-> <<reading, alt>>]
NoSlp == [lit |-> 0, from |-> <<None>>]

ReadingIsZero(r) == r.kind = "zero" \/ (r.kind = "linear" /\ r.p = 0)

\* the stored reference is 0.0: dividing by it raises ZeroDivisionError
SlpIsZero(slp) ==
    IF Len(slp.from) = 2 THEN ReadingIsZero(slp.from[1])
    ELSE slp.from = <<>> /\ slp.lit = 0

\* faulty variant: the altitude computed against the world-average
\* reference instead of the stored one
altitude_get_world_average(c, b, slp) ==
    LET o == pressure(c, b)
    IN  Outcome(Bus(o), [kind |-> "altitude", p |-> o.ret,
                         slp |-> Lit(WORLD_AVERAGE_SEA_LEVEL_PRESSURE)], None)

\* altitude getter: 44330.77 * (1.0 - (pressure / sea_level_pressure) ** 0.1902632)
altitude_get(c, b, slp) ==
    LET o == pressure(c, b)
    IN  IF SlpIsZero(slp) THEN Outcome(Bus(o), None, "ZeroDivisionError")
        ELSE Outcome(Bus(o), [kind |-> "altitude", p |-> o.ret, slp |-> slp], None)

\* faulty variant: the reference back-solved from the temperature reading
altitude_set_temperature(c, b, slp, value) ==
    LET o == temperature(c, b)
    IN  IF value = ALTITUDE_LIMIT THEN Outcome(Bus(o), slp, "ZeroDivisionError")
        ELSE Outcome(Bus(o), BackSolved(o.ret, value), None)

\* altitude setter: pressure / (1.0 - value / 44330.77) ** (1 / 0.1902632);
\* the pressure is read first, the divisor is 0.0 at value = 44330.77.
\* ret is the new stored reference.
altitude_set(c, b, slp, value) ==
    LET o == pressure(c, b)
    IN  IF value = ALTITUDE_LIMIT THEN Outcome(Bus(o), slp, "ZeroDivisionError")
        ELSE Outcome(Bus(o), BackSolved(o.ret, value), None)

(***************************************************************************)
(* Construction.  acked is the set of addresses that acknowledge the       *)
(* zero-length write of _check_address; address is the caller's argument   *)
(* (NoAddress when omitted).                                                    *)
(***************************************************************************)
\* faulty variant: the OSError of the probe swallowed as "present"
_check_address_swallow(acked, address) == TRUE

_check_address(acked, address) == address \in acked

\* faulty variant: a caller-supplied address that does not answer falls back to the
\* default address
ResolveAddress_fallback(c, acked, address) ==
    LET d == I2C_ADDRESS_DEFAULT(c)
        s == I2C_ADDRESS_SECONDARY(c)
        p(a) == Probe(a, a \in acked)
    IN  IF address # NoAddress /\ _check_address(acked, address)
        THEN [log |-> <<p(address)>>, address |-> address]
        ELSE LET pre == IF address = NoAddress THEN <<>> ELSE <<p(address)>>
             IN  IF _check_address(acked, d)
                 THEN [log |-> pre \o <<p(d)>>, address |-> d]
                 ELSE IF _check_address(acked, s)
                 THEN [log |-> pre \o <<p(d), p(s)>>, address |-> s]
                 ELSE [log |-> pre \o <<p(d), p(s)>>, address |-> NoAddress]

\* the probes issued (each logged with the bus's answer) and the address
\* resolved (NoAddress when not found)
ResolveAddress(c, acked, address) ==
    LET d == I2C_ADDRESS_DEFAULT(c)
        s == I2C_ADDRESS_SECONDARY(c)
        p(a) == Probe(a, a \in acked)
    IN  IF address = NoAddress
        THEN IF _check_address(acked, d)
             THEN [log |-> <<p(d)>>, address |-> d]
             ELSE IF _check_address(acked, s)
             THEN [log |-> <<p(d), p(s)>>, address |-> s]
             ELSE [log |-> <<p(d), p(s)>>, address |-> NoAddress]
        ELSE IF _check_address(acked, address)
             THEN [log |-> <<p(address)>>, address |-> address]
             ELSE [log |-> <<p(address)>>, address |-> NoAddress]

\* the register programming that follows the identity check
InitSequence(c, b) ==
    CASE c \in {"BMP581", "BMP585"} ->
             Run(b, <<W(_power_mode(c), STANDBY), S(5),
                      W(_iir_coefficient(c), COEF_0),
                      W(_iir_temp_coefficient(c), COEF_0),
                      W(_power_mode(c), NORMAL), S(5),
                      W(_pressure_enabled(c), 1)>>)
      [] c = "BMP390" ->
             Run(b, <<W(_power_mode(c), NORMAL), S(4), W(_pressure_enabled(c), 1)>>)
      [] c = "BMP280" ->
             LET b1 == Run(b, <<W(_config_register, 0),
                                W(_control_register,
                                  _translate_osr_bmp280(OSR1) * 32
                                    + _translate_osr_bmp280(OSR1) * 4
                                    + BMP280_NORMAL_POWER)>>)
                 b2 == Bus(pressure(c, b1))
             IN  Run(b2, <<S(4), S(63)>>)

\* __init__: [mem, log, exc, address, slp, t_fine]
Construct(c, m, acked, address) ==
    LET res == ResolveAddress(c, acked, address)
        b0 == [mem |-> m, log |-> <<Sleep(3)>> \o res.log]
        failed(b, a) == [mem |-> b.mem, log |-> b.log, exc |-> "RuntimeError",
                         address |-> a, slp |-> NoSlp, t_fine |-> T_fineZero]
    IN  IF res.address = NoAddress THEN failed(b0, NoAddress)
        ELSE LET b1 == Step(b0, R(_device_id(c)))
             IN  IF CBitsGet(m, _device_id(c)) # ExpectedDeviceId(c)
                 THEN failed(b1, res.address)
                 ELSE LET b2 == InitSequence(c, b1)
                      IN  [mem |-> b2.mem, log |-> b2.log, exc |-> None,
                           address |-> res.address,
                           slp |-> Lit(WORLD_AVERAGE_SEA_LEVEL_PRESSURE),
                           t_fine |-> T_fineZero]

(***************************************************************************)
(* output_data_rate and the config dump.                                   *)
(***************************************************************************)
_output_data_rate(c) ==
    CASE c \in {"BMP581", "BMP585", "BMP280"} -> CBits(5, 55, 2, 1)   \* 0x37
      [] c = "BMP390" -> CBits(5, 29, 0, 1)                           \* 0x1d

output_data_rate_get(c, b) ==
    Outcome(Step(b, R(_output_data_rate(c))), CBitsGet(b.mem, _output_data_rate(c)), None)

output_data_rate_set(c, b, value) ==
    IF value \notin 0 .. 31
    THEN Outcome(b, None, "ValueError")
    ELSE Outcome(Step(b, W(_output_data_rate(c), value)), None, None)

\* run the next getter unless an earlier one raised
Chain(o, G(_)) == IF o.exc # None THEN o ELSE G(Bus(o))

\* BMP581.config: device id, the four settings, pressure, temperature, altitude
config(c, b, slp) ==
    LET o1 == Outcome(Step(b, R(_device_id(c))), None, None)
        g2(x) == power_mode_get(c, x)
        g3(x) == pressure_oversample_rate_get(c, x)
        g4(x) == temperature_oversample_rate_get(c, x)
        g5(x) == iir_coefficient_get(c, x)
        g6(x) == pressure(c, x)
        g7(x) == temperature(c, x)
        g8(x) == altitude_get(c, x, slp)
        o == Chain(Chain(Chain(Chain(Chain(Chain(Chain(o1, g2), g3), g4), g5), g6), g7), g8)
    IN  Outcome(Bus(o), None, o.exc)

(***************************************************************************)
(* State.                                                                  *)
(***************************************************************************)
VARIABLES
    cls,                  \* the driver class instantiated
    mem,                  \* the device's registers
    phase,                \* "unprobed", "failed" (construction raised), "ready"
    address,              \* self._address
    sea_level_pressure,   \* self._sea_level_pressure
    last,                 \* the last operation: [op, arg, ret, exc]
    log,                  \* bus transactions and delays of the last operation
    nops                  \* steps taken since construction

vars == <<cls, mem, phase, address, sea_level_pressure, t_fine, last, log, nops>>

Op(op, arg, ret, exc) == [op |-> op, arg |-> arg, ret |-> ret, exc |-> exc]

\* addresses that may acknowledge: the class's default and secondary
AckSets(c) == SUBSET {I2C_ADDRESS_DEFAULT(c), I2C_ADDRESS_SECONDARY(c)}

\* the caller's address argument
AddressArgs(c) == {NoAddress, I2C_ADDRESS_DEFAULT(c), I2C_ADDRESS_SECONDARY(c)}

Args == 0 .. MaxArg

\* output_data_rate arguments: the largest legal one and the first illegal
OdrArgs == {31, 32}

\* altitudes in cm: sea level, the example's 111 m, and the limit 44330.77 m
Altitudes == {0, 11100, ALTITUDE_LIMIT}

\* references a caller stores, in 0.01 hPa (1010.80 hPa)
SeaLevelInputs == {101080}

Init ==
    /\ cls \in Classes
    /\ \E id \in DeviceIds, cal \in Calibrations : mem = ResetMem(cls, id, cal)
    /\ phase = "unprobed"
    /\ address = NoAddress
    /\ sea_level_pressure = NoSlp
    /\ t_fine = T_fineZero
    /\ last = Op("none", 0, None, None)
    /\ log = <<>>
    /\ nops = 0

Ready == phase = "ready" /\ nops < MaxOps

Bus0 == [mem |-> mem, log |-> <<>>]

(***************************************************************************)
(* Actions: one per public operation, each the whole handler.              *)
(***************************************************************************)
DoConstruct ==
    /\ phase = "unprobed"
    /\ \E acked \in AckSets(cls), a \in AddressArgs(cls) :
         LET o == Construct(cls, mem, acked, a)
         IN  /\ mem' = o.mem
             /\ log' = o.log
             /\ phase' = IF o.exc = None THEN "ready" ELSE "failed"
             /\ address' = o.address
             /\ sea_level_pressure' = o.slp
             /\ t_fine' = o.t_fine
             /\ last' = Op("construct", a, None, o.exc)
    /\ UNCHANGED <<cls, nops>>

\* a handler that touches only the bus
Done(op, arg, o) ==
    /\ mem' = o.mem
    /\ log' = o.log
    /\ last' = Op(op, arg, o.ret, o.exc)
    /\ nops' = nops + 1
    /\ UNCHANGED <<cls, phase, address>>

PowerModeGet ==
    /\ Ready
    /\ Done("power_mode", 0, power_mode_get(cls, Bus0))
    /\ UNCHANGED <<sea_level_pressure, t_fine>>

PowerModeSet ==
    /\ Ready
    /\ \E v \in Args : Done("power_mode=", v, power_mode_set(cls, Bus0, v))
    /\ UNCHANGED <<sea_level_pressure, t_fine>>

PressureOversampleRateGet ==
    /\ Ready
    /\ Done("pressure_oversample_rate", 0, pressure_oversample_rate_get(cls, Bus0))
    /\ UNCHANGED <<sea_level_pressure, t_fine>>

PressureOversampleRateSet ==
    /\ Ready
    /\ \E v \in Args :
         Done("pressure_oversample_rate=", v, pressure_oversample_rate_set(cls, Bus0, v))
    /\ UNCHANGED <<sea_level_pressure, t_fine>>

TemperatureOversampleRateGet ==
    /\ Ready
    /\ Done("temperature_oversample_rate", 0, temperature_oversample_rate_get(cls, Bus0))
    /\ UNCHANGED <<sea_level_pressure, t_fine>>

TemperatureOversampleRateSet ==
    /\ Ready
    /\ \E v \in Args :
         Done("temperature_oversample_rate=", v,
              temperature_oversample_rate_set(cls, Bus0, v))
    /\ UNCHANGED <<sea_level_pressure, t_fine>>

IirCoefficientGet ==
    /\ Ready
    /\ Done("iir_coefficient", 0, iir_coefficient_get(cls, Bus0))
    /\ UNCHANGED <<sea_level_pressure, t_fine>>

IirCoefficientSet ==
    /\ Ready
    /\ \E v \in Args : Done("iir_coefficient=", v, iir_coefficient_set(cls, Bus0, v))
    /\ UNCHANGED <<sea_level_pressure, t_fine>>

OutputDataRateGet ==
    /\ Ready
    /\ Done("output_data_rate", 0, output_data_rate_get(cls, Bus0))
    /\ UNCHANGED <<sea_level_pressure, t_fine>>

OutputDataRateSet ==
    /\ Ready
    /\ \E v \in OdrArgs : Done("output_data_rate=", v, output_data_rate_set(cls, Bus0, v))
    /\ UNCHANGED <<sea_level_pressure, t_fine>>

Temperature ==
    /\ Ready
    /\ Done("temperature", 0, temperature(cls, Bus0))
    /\ t_fine' = t_fine_after(cls, mem, t_fine)
    /\ UNCHANGED sea_level_pressure

Pressure ==
    /\ Ready
    /\ Done("pressure", 0, pressure(cls, Bus0))
    /\ t_fine' = t_fine_after(cls, mem, t_fine)
    /\ UNCHANGED sea_level_pressure

AltitudeGet ==
    /\ Ready
    /\ Done("altitude", 0, altitude_get(cls, Bus0, sea_level_pressure))
    /\ t_fine' = t_fine_after(cls, mem, t_fine)
    /\ UNCHANGED sea_level_pressure

AltitudeSet ==
    /\ Ready
    /\ \E v \in Altitudes :
         LET o == altitude_set(cls, Bus0, sea_level_pressure, v)
         IN  /\ Done("altitude=", v, Outcome(Bus(o), None, o.exc))
             /\ sea_level_pressure' = o.ret
    /\ t_fine' = t_fine_after(cls, mem, t_fine)

SeaLevelPressureGet ==
    /\ Ready
    /\ Done("sea_level_pressure", 0, Outcome(Bus0, sea_level_pressure, None))
    /\ UNCHANGED <<sea_level_pressure, t_fine>>

SeaLevelPressureSet ==
    /\ Ready
    /\ \E v \in SeaLevelInputs :
         /\ Done("sea_level_pressure=", v, Outcome(Bus0, None, None))
         /\ sea_level_pressure' = Lit(v)
    /\ UNCHANGED t_fine

Config ==
    /\ Ready
    /\ Done("config", 0, config(cls, Bus0, sea_level_pressure))
    /\ t_fine' = t_fine_after(cls, mem, t_fine)
    /\ UNCHANGED sea_level_pressure

\* the device stores a new sample in its data registers
DeviceSample ==
    /\ Ready
    /\ \E i \in 0 .. MaxSamples :
         /\ mem' = DataBytes(cls, mem, i)
         /\ mem' # mem
         /\ last' = Op("device_sample", i, None, None)
    /\ log' = <<>>
    /\ nops' = nops + 1
    /\ UNCHANGED <<cls, phase, address, sea_level_pressure, t_fine>>

Next ==
    \/ DoConstruct
    \/ PowerModeGet
    \/ PowerModeSet
    \/ PressureOversampleRateGet
    \/ PressureOversampleRateSet
    \/ TemperatureOversampleRateGet
    \/ TemperatureOversampleRateSet
    \/ IirCoefficientGet
    \/ IirCoefficientSet
    \/ OutputDataRateGet
    \/ OutputDataRateSet
    \/ Temperature
    \/ Pressure
    \/ AltitudeGet
    \/ AltitudeSet
    \/ SeaLevelPressureGet
    \/ SeaLevelPressureSet
    \/ Config
    \/ DeviceSample

Spec == Init /\ [][Next]_vars

(***************************************************************************)
(* Decoding of register bytes.  A second specification: the device holds   *)
(* chosen bytes in its calibration registers and (BMP280) in its 6-byte    *)
(* data block, and the driver applies its accessors to them.               *)
(***************************************************************************)
\* bytes at the corners of the signed and unsigned ranges
CornerBytes == {0, 1, 127, 128, 255}

\* registers holding the most significant byte of a 16-bit constant
MsbRegs(c) ==
    CASE c = "BMP390" -> {50, 52, 55, 57, 61, 63, 67}
      [] c = "BMP280" -> {r \in 136 .. 159 : r % 2 = 1}

\* a device whose 16-bit constants are all (msb, lsb) and whose 8-bit
\* constants are all lsb
CalFile(c, msb, lsb) ==
    [r \in Regs \cup CalRegs(c) |->
        IF r \in MsbRegs(c) THEN msb
        ELSE IF r \in CalRegs(c) THEN lsb
        ELSE 0]

\* 6-byte data blocks, 0xF7 first: every combination of extreme high bytes
\* and of four low bytes (both nibbles empty and full) around middle bytes
\* 0xA5 and 0x5A
Blocks ==
    {<<b0, 165, b2, b3, 90, b5>> :
        b0 \in {0, 255}, b2 \in {0, 15, 240, 255},
        b3 \in {0, 255}, b5 \in {0, 15, 240, 255}}

BlockRegs == _d.reg .. (_d.reg + _d.len - 1)

DecodeInit ==
    /\ cls \in {"BMP390", "BMP280"}
    /\ \E msb \in CornerBytes, lsb \in CornerBytes : mem = CalFile(cls, msb, lsb)
    /\ phase = "decode"
    /\ address = NoAddress
    /\ sea_level_pressure = NoSlp
    /\ t_fine = T_fineZero
    /\ last = Op("none", 0, None, None)
    /\ log = <<>>
    /\ nops = 0

\* the BMP280 stores a conversion in its data block
LatchBlock ==
    /\ phase = "decode"
    /\ cls = "BMP280"
    /\ \A r \in BlockRegs : mem[r] = 0
    /\ \E b \in Blocks :
         mem' = [r \in DOMAIN mem |->
                    IF r \in BlockRegs THEN b[r - _d.reg + 1] ELSE mem[r]]
    /\ mem' # mem
    /\ last' = Op("latch", 0, None, None)
    /\ UNCHANGED <<cls, phase, address, sea_level_pressure, t_fine, log, nops>>

\* the driver evaluates one calibration accessor
ReadCalibration ==
    /\ phase = "decode"
    /\ \E name \in CalibrationNames(cls) :
         last' = Op(name, 0, Calibration(name, mem), None)
    /\ UNCHANGED <<cls, mem, phase, address, sea_level_pressure, t_fine, log, nops>>

\* the driver extracts the raw counts from the data block
ReadRawBlock ==
    /\ phase = "decode"
    /\ cls = "BMP280"
    /\ last' = Op("_get_raw_temp_pressure", 0, _get_raw_temp_pressure(mem), None)
    /\ UNCHANGED <<cls, mem, phase, address, sea_level_pressure, t_fine, log, nops>>

DecodeNext ==
    \/ LatchBlock
    \/ ReadCalibration
    \/ ReadRawBlock

SpecDecode == DecodeInit /\ [][DecodeNext]_vars

(***************************************************************************)
(* Vocabulary of the properties.                                           *)
(***************************************************************************)
\* a step was taken (not a stutter); last'.op names it
Acted == nops' = nops + 1

\* the names the documentation gives the canonical values
CanonicalPowerModeName(v) ==
    CASE v = 0 -> "STANDBY" [] v = 1 -> "NORMAL" [] v = 2 -> "FORCED"
      [] v = 3 -> "NON_STOP" [] OTHER -> "?"

CanonicalOsrName(v) ==
    CASE v = 0 -> "OSR1" [] v = 1 -> "OSR2" [] v = 2 -> "OSR4" [] v = 3 -> "OSR8"
      [] v = 4 -> "OSR16" [] v = 5 -> "OSR32" [] v = 6 -> "OSR64"
      [] v = 7 -> "OSR128" [] OTHER -> "?"

\* the chip's encoding of NORMAL (continuous) mode, per the datasheets
NativeNormal(c) == IF c \in {"BMP581", "BMP585"} THEN 1 ELSE 3

PowerModeField == CBitsGet(mem, _power_mode(cls))

Writes(l) == SelectSeq(l, LAMBDA e : e.t = "write")
Reads(l) == SelectSeq(l, LAMBDA e : e.t = "read")
Probes(l) == SelectSeq(l, LAMBDA e : e.t = "probe")

(***************************************************************************)
(* C1. For every class and every value v of its power_mode_values, the     *)
(* power_mode setter accepts v and a power_mode read that follows returns  *)
(* the name of v (STANDBY, NORMAL, FORCED, NON_STOP).                      *)
(* The code breaks this: BMP390 writes NORMAL as 1, which its getter names *)
(* FORCED (and FORCED as 2, named NORMAL); BMP280 remaps NORMAL to 3 and   *)
(* then 3 to 1, which its getter names FORCED.                             *)
(***************************************************************************)
C1_PowerModeRoundTrip ==
    (phase = "ready" /\ last.op = "power_mode=" /\ last.arg \in power_mode_values(cls))
        => /\ last.exc = None
           /\ power_mode_get(cls, Bus0).exc = None
           /\ power_mode_get(cls, Bus0).ret = CanonicalPowerModeName(last.arg)

(***************************************************************************)
(* C2. On BMP581, BMP585 and BMP280 (which inherits the setter), for every *)
(* power mode the register holds and every legal coefficient, the call     *)
(* iir_coefficient = v returns without raising and leaves the power-mode   *)
(* field as it was.                                                        *)
(* The code breaks this on BMP280: after construction the field holds the  *)
(* native NORMAL code 3, which the restoring power_mode setter rejects     *)
(* with ValueError, leaving the device in STANDBY.                         *)
(***************************************************************************)
C2_IirKeepsPowerMode ==
    [][(/\ Acted
        /\ last'.op = "iir_coefficient="
        /\ cls \in {"BMP581", "BMP585", "BMP280"}
        /\ last'.arg \in iir_coefficient_values(cls))
          => /\ last'.exc = None
             /\ CBitsGet(mem', _power_mode(cls)) = CBitsGet(mem, _power_mode(cls))]_vars

(***************************************************************************)
(* C3. After a successful construction the power-mode field holds the      *)
(* chip's NORMAL encoding (1 on BMP581/BMP585, 3 on BMP390 and BMP280) and *)
(* the power_mode getter returns "NORMAL".                                 *)
(* The code breaks this on BMP390: __init__ writes the canonical NORMAL    *)
(* (1), a forced-mode code on that chip, which the getter names FORCED.    *)
(***************************************************************************)
C3_ConstructedNormal ==
    (phase = "ready" /\ last.op = "construct")
        => /\ PowerModeField = NativeNormal(cls)
           /\ power_mode_get(cls, Bus0).ret = "NORMAL"

(***************************************************************************)
(* C4. For every class and each of the setters power_mode,                 *)
(* pressure_oversample_rate, temperature_oversample_rate and               *)
(* iir_coefficient, a value outside the class's legal set makes the setter *)
(* raise the validation error without issuing any bus transaction, so      *)
(* every device register is unchanged.                                     *)
(***************************************************************************)
\* the legal sets as documented: BMP390 has no NON_STOP and no OSR64/OSR128,
\* BMP280 has no NON_STOP and stops at OSR16
DocumentedLegal(c, op) ==
    CASE op = "power_mode=" ->
             IF c \in {"BMP581", "BMP585"} THEN 0 .. 3 ELSE {0, 1, 2}
      [] op \in {"pressure_oversample_rate=", "temperature_oversample_rate="} ->
             IF c \in {"BMP581", "BMP585"} THEN 0 .. 7
             ELSE IF c = "BMP390" THEN 0 .. 5 ELSE 0 .. 4
      [] op = "iir_coefficient=" -> 0 .. 7

ValidatedSetters ==
    {"power_mode=", "pressure_oversample_rate=", "temperature_oversample_rate=",
     "iir_coefficient="}

Bmp280Osr == {OSR1, OSR2, OSR4, OSR8, OSR16}

C5_OversampleRoundTrip ==
    /\ (phase = "ready" /\ last.op = "pressure_oversample_rate="
          /\ last.arg \in DocumentedLegal(cls, last.op))
         => /\ last.exc = None
            /\ pressure_oversample_rate_get(cls, Bus0).ret = CanonicalOsrName(last.arg)
    /\ (phase = "ready" /\ last.op = "temperature_oversample_rate="
          /\ last.arg \in DocumentedLegal(cls, last.op))
         => /\ last.exc = None
            /\ temperature_oversample_rate_get(cls, Bus0).ret = CanonicalOsrName(last.arg)
    /\ cls = "BMP280" =>
         /\ \A v, w \in Bmp280Osr :
               _translate_osr_bmp280(v) = _translate_osr_bmp280(w) => v = w
         /\ {_translate_osr_bmp280(v) : v \in Bmp280Osr} = 1 .. 5

C5_Witness ==
    /\ cls = "BMP280"
    /\ last.op = "temperature_oversample_rate="
    /\ last.arg = OSR16
    /\ last.exc = None
    /\ CBitsGet(mem, _temperature_oversample_rate(cls)) = 5

(***************************************************************************)
(* C6. Address resolution at construction: a caller-supplied address is    *)
(* the only one probed; with no address the default is probed first and    *)
(* the secondary only if the default did not acknowledge; the resolved     *)
(* address is the first probed address that acknowledged, so a bus that    *)
(* NACKs the default and ACKs the secondary yields the secondary.          *)
(***************************************************************************)
C6_AddressResolution ==
    last.op = "construct" =>
        LET pr == Probes(log)
            d == I2C_ADDRESS_DEFAULT(cls)
            s == I2C_ADDRESS_SECONDARY(cls)
        IN  /\ last.arg # NoAddress => (Len(pr) = 1 /\ pr[1].a = last.arg)
            /\ last.arg = NoAddress =>
                 /\ Len(pr) \in {1, 2}
                 /\ pr[1].a = d
                 /\ Len(pr) = 2 <=> pr[1].v = 0
                 /\ Len(pr) = 2 => pr[2].a = s
            /\ pr[Len(pr)].v = 1 => address = pr[Len(pr)].a
            /\ phase = "ready" => (pr[Len(pr)].v = 1 /\ address = pr[Len(pr)].a)
            /\ \A i \in 1 .. (Len(pr) - 1) : pr[i].v = 0

C6_Witness ==
    /\ last.op = "construct"
    /\ last.arg = NoAddress
    /\ phase = "ready"
    /\ Len(Probes(log)) = 2
    /\ address = I2C_ADDRESS_SECONDARY(cls)

(***************************************************************************)
(* C7. If no candidate address acknowledges the probe, construction fails  *)
(* with the device-not-found error, each candidate was probed exactly      *)
(* once, and no register read or write was issued.                         *)
(***************************************************************************)
C7_NoDeviceNoTraffic ==
    (last.op = "construct" /\ \A i \in DOMAIN Probes(log) : Probes(log)[i].v = 0)
        => /\ phase = "failed"
           /\ last.exc = "RuntimeError"
           /\ Reads(log) = <<>>
           /\ Writes(log) = <<>>
           /\ [i \in DOMAIN Probes(log) |-> Probes(log)[i].a]
                = IF last.arg = NoAddress
                  THEN <<I2C_ADDRESS_DEFAULT(cls), I2C_ADDRESS_SECONDARY(cls)>>
                  ELSE <<last.arg>>

C7_Witness ==
    /\ last.op = "construct"
    /\ last.arg = NoAddress
    /\ phase = "failed"
    /\ Len(Probes(log)) = 2
    /\ Probes(log)[2].v = 0

(***************************************************************************)
(* C8. Construction succeeds only if the device-ID register reads the      *)
(* class's expected byte (0x50 BMP581, 0x51 BMP585, 0x60 BMP390, 0x58      *)
(* BMP280); for any other byte it fails with the device-not-found error    *)
(* and no configuration register has been written.                         *)
(***************************************************************************)
DocumentedId(c) ==
    CASE c = "BMP581" -> 80 [] c = "BMP585" -> 81
      [] c = "BMP390" -> 96 [] c = "BMP280" -> 88

C8_IdentityVerified ==
    last.op = "construct" =>
        /\ phase = "ready" => CBitsGet(mem, _device_id(cls)) = DocumentedId(cls)
        /\ CBitsGet(mem, _device_id(cls)) # DocumentedId(cls) =>
             /\ phase = "failed"
             /\ last.exc = "RuntimeError"
             /\ Writes(log) = <<>>

C8_Witness ==
    /\ last.op = "construct"
    /\ cls = "BMP585"
    /\ CBitsGet(mem, _device_id(cls)) = 80
    /\ Reads(log) # <<>>
    /\ phase = "failed"

(***************************************************************************)
(* C9. sea_level_pressure is 1013.25 right after a successful construction *)
(* and afterwards equals the value most recently stored by the             *)
(* sea_level_pressure setter or the altitude setter: no other operation    *)
(* changes it.                                                             *)
(***************************************************************************)
C9_SeaLevelPressureOwned ==
    [][/\ (last'.op = "construct" /\ phase' = "ready")
            => sea_level_pressure' = Lit(101325)
       /\ (Acted /\ last'.op = "sea_level_pressure=")
            => sea_level_pressure' = Lit(last'.arg)
       /\ (last'.op \notin {"construct", "sea_level_pressure=", "altitude="})
            => sea_level_pressure' = sea_level_pressure
       /\ (Acted /\ last'.op = "sea_level_pressure")
            => last'.ret = sea_level_pressure]_vars

C9_Witness ==
    /\ last.op = "iir_coefficient="
    /\ last.exc = None
    /\ sea_level_pressure = Lit(101080)

PressureNow == pressure(cls, Bus0).ret

\* the reference was back-solved by the altitude setter
BackSolvedReference == Len(sea_level_pressure.from) = 2

\* the forward formula applied to a reading P and to the reference
\* back-solved from the same P and an altitude A cancels to A
ReturnsAltitude(r, A) ==
    /\ Len(r.slp.from) = 2
    /\ r.slp.from[1] = r.p
    /\ r.slp.from[2] = A

RawPressureNow ==
    LET r == PressDataReg(cls)
    IN  IF cls = "BMP280"
        THEN (mem[r] * 65536 + mem[r + 1] * 256 + mem[r + 2]) \div 16
        ELSE mem[r] + mem[r + 1] * 256 + mem[r + 2] * 65536

RawTemperatureNow ==
    LET r == TempDataReg(cls)
    IN  IF cls = "BMP280"
        THEN (mem[r] * 65536 + mem[r + 1] * 256 + mem[r + 2]) \div 16
        ELSE mem[r] + mem[r + 1] * 256 + mem[r + 2] * 65536

\* s(r) of a 24-bit register value
SignExtended24(r) == IF r < 8388608 THEN r ELSE r - 16777216

\* 24-bit values at the corners of the two ranges, and raw 6400 (1.0 hPa)
RawCorners == {0, 1, 6400, 8388607, 8388608, 16777215}

(***************************************************************************)
(* C12.  On BMP581 and BMP585 the temperature is s(r) / 65536 and the      *)
(* pressure s(r) / 6400 of the 24-bit register value r, where s(r) = r     *)
(* below 2^23 and r - 2^24 from 2^23 on, so s(r) is in -2^23 .. 2^23 - 1;  *)
(* raw temperature 0 is 0.0 and raw pressure 6400 is 1.0 hPa.  (A linear   *)
(* reading holds the counts s(r): t in 1/65536 degree, p in 1/6400 hPa.)   *)
(***************************************************************************)
C12_LinearScale ==
    /\ \A r \in RawCorners :
          /\ _twos_comp(r, 24) = SignExtended24(r)
          /\ _twos_comp(r, 24) \in -8388608 .. 8388607
    /\ _twos_comp(0, 24) = 0
    /\ _twos_comp(6400, 24) = 6400
    /\ (phase = "ready" /\ cls \in {"BMP581", "BMP585"} /\ last.op = "temperature")
          => /\ last.exc = None
             /\ last.ret = Reading("linear", 0, SignExtended24(RawTemperatureNow))
    /\ (phase = "ready" /\ cls \in {"BMP581", "BMP585"} /\ last.op = "pressure")
          => /\ last.exc = None
             /\ last.ret = Reading("linear", SignExtended24(RawPressureNow), 0)

C12_Witness ==
    /\ phase = "ready"
    /\ cls \in {"BMP581", "BMP585"}
    /\ last.op = "pressure"
    /\ RawPressureNow >= 8388608
    /\ last.ret.p < 0

\* the reads of the data registers a getter of the class has to issue
DataReads(c, op) ==
    CASE c = "BMP280" -> {Read(_d)}
      [] c = "BMP390" /\ op = "pressure" -> {Read(_pressure(c)), Read(_temperature(c))}
      [] op = "pressure" -> {Read(_pressure(c))}
      [] OTHER -> {Read(_temperature(c))}

\* the reading that the data registers now held determine
ReadingNow(op) ==
    CASE cls \in {"BMP581", "BMP585"} ->
             IF op = "pressure"
             THEN Reading("linear", SignExtended24(RawPressureNow), 0)
             ELSE Reading("linear", 0, SignExtended24(RawTemperatureNow))
      [] cls = "BMP390" ->
             Reading("bmp390", IF op = "pressure" THEN RawPressureNow ELSE 0,
                     RawTemperatureNow)
      [] cls = "BMP280" ->
             IF op = "temperature" THEN Reading("bmp280", 0, RawTemperatureNow)
             ELSE IF Var1IsZero(mem) THEN Reading("zero", 0, 0)
             ELSE Reading("bmp280", RawPressureNow, RawTemperatureNow)

(***************************************************************************)
(* C13.  On every class each call of the temperature getter and of the     *)
(* pressure getter reads the raw data registers during the call and        *)
(* returns the reading of the bytes the device holds at that call, not of  *)
(* an earlier call's.                                                      *)
(***************************************************************************)
C13_FreshRead ==
    (phase = "ready" /\ last.op \in {"temperature", "pressure"})
        => /\ last.exc = None
           /\ \A e \in DataReads(cls, last.op) : \E i \in 1 .. Len(log) : log[i] = e
           /\ last.ret = ReadingNow(last.op)

C13_Witness ==
    /\ phase = "ready"
    /\ nops = 2
    /\ last.op = "pressure"
    /\ RawPressureNow # 0
    /\ RawTemperatureNow # 0
    /\ last.ret = ReadingNow("pressure")
    /\ last.ret.kind # "zero"

(***************************************************************************)
(* C14.  On BMP280, whenever var1 of the pressure compensation is exactly  *)
(* zero, and so whenever dig_p1 is 0, the pressure getter returns 0 and    *)
(* raises nothing.                                                         *)
(***************************************************************************)
C14_ZeroDenominator ==
    (/\ phase = "ready"
     /\ cls = "BMP280"
     /\ last.op = "pressure"
     /\ (Var1IsZero(mem) \/ dig_p1(mem) = 0))
        => /\ last.exc = None
           /\ last.ret = Reading("zero", 0, 0)

\* var1 is zero by cancellation, with dig_p1 programmed
C14_Witness ==
    /\ phase = "ready"
    /\ cls = "BMP280"
    /\ last.op = "pressure"
    /\ dig_p1(mem) # 0
    /\ Var1IsZero(mem)
    /\ last.ret = Reading("zero", 0, 0)

(***************************************************************************)
(* Order of bus transactions within one call.  log' is the call's record,  *)
(* mem the registers before it.                                            *)
(***************************************************************************)
\* the registers after the writes of a log
RECURSIVE Replay(_, _)
Replay(m, l) ==
    IF l = <<>> THEN m
    ELSE Replay(IF Head(l).t = "write" THEN [m EXCEPT ![Head(l).a] = Head(l).v] ELSE m,
                Tail(l))

\* field f after the first i entries of the call's log
FieldAt(f, i) == CBitsGet(Replay(mem, SubSeq(log', 1, i)), f)

\* the bus writes that a sequence of field assignments W(f, v) amounts to
RECURSIVE FieldWrites(_, _)
FieldWrites(m, steps) ==
    IF steps = <<>> THEN <<>>
    ELSE LET s == Head(steps)
         IN  <<Write(s.f.reg, CBitsMerge(m, s.f, s.v))>>
                 \o FieldWrites(CBitsSet(m, s.f, s.v), Tail(steps))

FilterRegs(c) == {_iir_coefficient(c).reg}
                    \cup (IF c = "BMP390" THEN {} ELSE {_iir_temp_coefficient(c).reg})

\* entry i of the call's log writes a filter register
FilterWrite(i) == log'[i].t = "write" /\ log'[i].a \in FilterRegs(cls)

\* the power-mode field is STANDBY whenever a filter register is written
FilterWritesInStandby ==
    \A i \in 1 .. Len(log') :
        FilterWrite(i) => FieldAt(_power_mode(cls), i - 1) = STANDBY

IirCall ==
    /\ Acted
    /\ last'.op = "iir_coefficient="
    /\ last'.arg \in iir_coefficient_values(cls)

(***************************************************************************)
(* C15.  On BMP581 and BMP585, for every power mode m the device is in,    *)
(* iir_coefficient = v with a legal v writes exactly: power mode STANDBY   *)
(* (only when m is not STANDBY), pressure filter v, temperature filter v,  *)
(* power mode m; the power-mode field is STANDBY at every filter write.    *)
(***************************************************************************)
C15_IirWriteSequence ==
    [][(IirCall /\ cls \in {"BMP581", "BMP585"})
          => LET m0 == CBitsGet(mem, _power_mode(cls))
                 v == last'.arg
                 enter == IF m0 # STANDBY THEN <<W(_power_mode(cls), STANDBY)>> ELSE <<>>
             IN  /\ last'.exc = None
                 /\ Writes(log') =
                       FieldWrites(mem, enter \o <<W(_iir_coefficient(cls), v),
                                                   W(_iir_temp_coefficient(cls), v),
                                                   W(_power_mode(cls), m0)>>)
                 /\ FilterWritesInStandby]_vars

\* called in NORMAL mode: STANDBY, two filter writes, NORMAL
C15_Witness ==
    /\ phase = "ready"
    /\ cls \in {"BMP581", "BMP585"}
    /\ last.op = "iir_coefficient="
    /\ last.arg = COEF_3
    /\ last.exc = None
    /\ Len(Writes(log)) = 4
    /\ Writes(log)[1].a = _power_mode(cls).reg
    /\ Writes(log)[1].v % 4 = STANDBY
    /\ PowerModeField = NORMAL

\* entry i of the call's log sets the pressure-enable bit
EnablesPressure(i) ==
    /\ log'[i].t = "write"
    /\ FieldAt(_pressure_enabled(cls), i - 1) = 0
    /\ FieldAt(_pressure_enabled(cls), i) = 1

\* entry i of the call's log changes the power-mode field
ChangesPowerMode(i) ==
    /\ log'[i].t = "write"
    /\ FieldAt(_power_mode(cls), i) # FieldAt(_power_mode(cls), i - 1)

Constructed == phase = "unprobed" /\ phase' = "ready"

(***************************************************************************)
(* C16.  Constructing a BMP581, BMP585 or BMP390 writes the pressure       *)
(* enable before it writes the power mode that starts measuring; on BMP581 *)
(* and BMP585 the writes are STANDBY, the two filter coefficients,         *)
(* pressure enable, NORMAL, and the reference is then the default.         *)
(* The code breaks this: all three constructors set NORMAL, wait, and only *)
(* then enable the pressure measurement.                                   *)
(***************************************************************************)
C16_PressureEnabledBeforeNormal ==
    [][(Constructed /\ cls # "BMP280")
          => /\ \E i, j \in 1 .. Len(log') :
                   /\ EnablesPressure(i)
                   /\ ChangesPowerMode(j)
                   /\ FieldAt(_power_mode(cls), j) = NORMAL
                   /\ i < j
             /\ cls \in {"BMP581", "BMP585"}
                   => /\ Writes(log') =
                            FieldWrites(mem, <<W(_power_mode(cls), STANDBY),
                                               W(_iir_coefficient(cls), COEF_0),
                                               W(_iir_temp_coefficient(cls), COEF_0),
                                               W(_pressure_enabled(cls), 1),
                                               W(_power_mode(cls), NORMAL)>>)
                      /\ sea_level_pressure' = Lit(WORLD_AVERAGE_SEA_LEVEL_PRESSURE)]_vars

(***************************************************************************)
(* C17.  During construction every write that changes the power mode is    *)
(* followed at once by a settle delay, before any other bus transaction;   *)
(* on BMP280 no register is read between the control-register write and    *)
(* the delay.                                                              *)
(* The code breaks this on BMP280: __init__ reads the pressure (data and   *)
(* calibration registers) right after the control-register write and       *)
(* sleeps afterwards.                                                      *)
(***************************************************************************)
C17_SettleAfterModeChange ==
    [][Constructed
          => \A i \in 1 .. Len(log') :
                 ChangesPowerMode(i) => (i < Len(log') /\ log'[i + 1].t = "sleep")]_vars

\* positions in the call's log of the writes to register reg
WritesTo(reg) == {i \in 1 .. Len(log') : log'[i].t = "write" /\ log'[i].a = reg}

Min(xs) == CHOOSE x \in xs : \A y \in xs : x <= y
Max(xs) == CHOOSE x \in xs : \A y \in xs : y <= x

SleepBetween(i, j) == \E k \in (i + 1) .. (j - 1) : log'[k].t = "sleep"

(***************************************************************************)
(* C18.  On BMP581 and BMP585 the iir_coefficient setter waits the         *)
(* mode-change settle time after the switch to STANDBY, before the first   *)
(* filter write, and again after the power mode is restored.               *)
(* The code breaks this: the setter changes the mode through the           *)
(* power_mode setter, which does not sleep, and has no sleep of its own.   *)
(***************************************************************************)
C18_IirSettleDelays ==
    [][(IirCall /\ cls \in {"BMP581", "BMP585"} /\ last'.exc = None)
          => LET pm == WritesTo(_power_mode(cls).reg)
                 fw == WritesTo(_iir_coefficient(cls).reg)
             IN  /\ pm # {} /\ fw # {}
                 /\ CBitsGet(mem, _power_mode(cls)) # STANDBY
                       => SleepBetween(Min(pm), Min(fw))
                 /\ SleepBetween(Max(pm), Len(log') + 1)]_vars

(***************************************************************************)
(* C19.  The BMP280 power_mode setter writes the chip's code of the        *)
(* canonical value: 3 for NORMAL (1), 0 for STANDBY (0), and a forced-mode *)
(* code (1 or 2) for FORCED (2).                                           *)
(* The code breaks this for NORMAL: the value remapped to 3 by the first   *)
(* `if` is remapped to 1 by the second, so the field holds a FORCED code.  *)
(***************************************************************************)
C19_Bmp280PowerModeRemap ==
    (/\ phase = "ready"
     /\ cls = "BMP280"
     /\ last.op = "power_mode="
     /\ last.arg \in {STANDBY, NORMAL, FORCED})
        => /\ last.exc = None
           /\ last.arg = NORMAL => PowerModeField = 3
           /\ last.arg = STANDBY => PowerModeField = 0
           /\ last.arg = FORCED => PowerModeField \in {1, 2}

(***************************************************************************)
(* C20.  On BMP390 the power-mode field is STANDBY whenever the            *)
(* iir_coefficient setter writes the filter field.                         *)
(* The code breaks this: the BMP390 setter writes the field in whatever    *)
(* mode the device is in, and after construction that is not STANDBY.      *)
(***************************************************************************)
C20_Bmp390FilterInStandby ==
    [][(IirCall /\ cls = "BMP390") => FilterWritesInStandby]_vars

\* the BMP280 pressure that the registers m alone determine: t_fine of the
\* block's raw temperature, the guard on var1, then the block's raw pressure
PressureOfBlock280(m) ==
    LET raw == _get_raw_temp_pressure(m)
        fine == t_fine_bmp280(m, raw.t_raw)
    IN  IF var1_bmp280(m, fine).m = 0 THEN Reading("zero", 0, 0)
        ELSE Reading("bmp280", raw.p_raw, raw.t_raw)

\* positions in the last call's log of the reads of the 6-byte data block
BlockReads == {i \in 1 .. Len(log) : log[i] = Read(_d)}

(***************************************************************************)
(* C21.  On BMP280 every pressure call reads the 6-byte data block once,   *)
(* derives t_fine in that call from the block's raw temperature and        *)
(* compensates the block's raw pressure with it: the result is the one the *)
(* registers determine, whatever t_fine the calls before it (or the        *)
(* constructor's reset to 0) left behind.                                  *)
(***************************************************************************)
C21_PressureIndependentOfHistory ==
    (phase = "ready" /\ cls = "BMP280" /\ last.op = "pressure")
        => /\ last.exc = None
           /\ BlockReads = {1}
           /\ t_fine = T_fine(_get_raw_temp_pressure(mem).t_raw)
           /\ last.ret = PressureOfBlock280(mem)

\* a pressure call made with a t_fine left for another raw temperature
C21_Witness ==
    /\ phase = "ready"
    /\ cls = "BMP280"
    /\ nops = 2
    /\ last.op = "pressure"
    /\ last.exc = None
    /\ RawTemperatureNow # 0
    /\ t_fine = T_fine(RawTemperatureNow)
    /\ last.ret = PressureOfBlock280(mem)

(***************************************************************************)
(* Decoding of calibration constants and raw counts (SpecDecode).          *)
(***************************************************************************)
\* the bytes burnt into the 16-bit constants, and the byte of the 8-bit ones
BurntMsb == mem[CHOOSE r \in MsbRegs(cls) : TRUE]
BurntLsb == mem[CHOOSE r \in CalRegs(cls) \ MsbRegs(cls) : TRUE]

Unsigned16Names == {"par_t1", "par_t2", "par_p5", "par_p6", "dig_t1", "dig_p1"}
Signed8Names == {"par_t3", "par_p3", "par_p4", "par_p7", "par_p8", "par_p10", "par_p11"}

\* the documented decoding of the constant called name from the burnt bytes
Decoded(name) ==
    LET c == BurntMsb * 256 + BurntLsb
        b == BurntLsb
    IN  IF name \in Unsigned16Names THEN c
        ELSE IF name \in Signed8Names THEN (IF b <= 127 THEN b ELSE b - 256)
        ELSE (IF c < 32768 THEN c ELSE c - 65536)

(***************************************************************************)
(* C22.  Every calibration accessor decodes with a fixed signedness: for   *)
(* the bytes (msb, lsb) and c = (msb << 8) | lsb, par_t1, par_t2, par_p5,  *)
(* par_p6, dig_t1 and dig_p1 return c; par_p1, par_p2, par_p9, dig_t2,     *)
(* dig_t3 and dig_p2 .. dig_p9 return c below 0x8000 and c - 0x10000 from  *)
(* there on; par_t3, par_p3, par_p4, par_p7, par_p8, par_p10 and par_p11   *)
(* return the byte b up to 127 and b - 256 above.                          *)
(***************************************************************************)
C22_CalibrationSignedness ==
    /\ \A name \in CalibrationNames(cls) : Calibration(name, mem) = Decoded(name)
    /\ last.op \in CalibrationNames(cls) => last.ret = Decoded(last.op)

\* a signed 16-bit constant read with its sign bit set
C22_Witness ==
    /\ cls = "BMP390"
    /\ last.op = "par_p9"
    /\ BurntMsb = 128
    /\ BurntLsb = 1
    /\ last.ret = -32767

\* the byte at 0xF7 + k of the data block
BlockByte(m, k) == m[_d.reg + k]

\* the registers m with the low 4 bits of press_xlsb and temp_xlsb replaced
WithLowNibbles(m, lo2, lo5) ==
    [m EXCEPT ![_d.reg + 2] = (m[_d.reg + 2] \div 16) * 16 + lo2,
              ![_d.reg + 5] = (m[_d.reg + 5] \div 16) * 16 + lo5]

(***************************************************************************)
(* C23.  BMP280 raw extraction: for the block b0 .. b5 at 0xF7 .. 0xFC,    *)
(* _get_raw_temp_pressure returns raw pressure (b0 << 12) | (b1 << 4) |    *)
(* (b2 >> 4) and raw temperature (b3 << 12) | (b4 << 4) | (b5 >> 4); both  *)
(* lie in 0 .. 2^20 - 1 and neither depends on the low 4 bits of b2 or of  *)
(* b5.                                                                     *)
(***************************************************************************)
C23_RawExtraction ==
    cls = "BMP280" =>
        LET raw == _get_raw_temp_pressure(mem)
        IN  /\ raw.p_raw = BlockByte(mem, 0) * 4096 + BlockByte(mem, 1) * 16
                              + BlockByte(mem, 2) \div 16
            /\ raw.t_raw = BlockByte(mem, 3) * 4096 + BlockByte(mem, 4) * 16
                              + BlockByte(mem, 5) \div 16
            /\ raw.p_raw \in 0 .. (Pow2(20) - 1)
            /\ raw.t_raw \in 0 .. (Pow2(20) - 1)
            /\ \A lo2, lo5 \in {0, 5, 15} :
                  _get_raw_temp_pressure(WithLowNibbles(mem, lo2, lo5)) = raw
            /\ last.op = "_get_raw_temp_pressure" => last.ret = raw

\* both counts at the top of their range, extracted from a block whose low
\* nibbles are set
C23_Witness ==
    /\ cls = "BMP280"
    /\ last.op = "_get_raw_temp_pressure"
    /\ BlockByte(mem, 0) = 255
    /\ BlockByte(mem, 2) = 255
    /\ BlockByte(mem, 3) = 0
    /\ BlockByte(mem, 5) = 15
    /\ last.ret = [t_raw |-> 90 * 16, p_raw |-> 255 * 4096 + 165 * 16 + 15]

(***************************************************************************)
(* Bus traffic on the calibration registers (Spec).                        *)
(***************************************************************************)
\* the calibration registers read by a call, in the order of its log
CalReadsOf(c, l) ==
    LET rd == SelectSeq(l, LAMBDA e : e.t = "read" /\ e.a \in CalRegs(c))
    IN  [i \in 1 .. Len(rd) |-> rd[i].a]

\* a temperature or pressure read made right after another one
LaterReading ==
    /\ Acted
    /\ cls \in {"BMP390", "BMP280"}
    /\ last.op \in {"temperature", "pressure"}
    /\ last'.op \in {"temperature", "pressure"}

(***************************************************************************)
(* C24 as stated.  On BMP390 and BMP280 each calibration constant is read  *)
(* from the device once, and a temperature or pressure read that follows   *)
(* an earlier one issues no bus read of the calibration registers.         *)
(* Refuted: the constants are properties over register fields, so every    *)
(* temperature or pressure read fetches them from the device again.        *)
(***************************************************************************)
C24_CalibrationReadOnce ==
    [][LaterReading => CalReadsOf(cls, log') = <<>>]_vars

(***************************************************************************)
(* C24 amended.  On BMP390 and BMP280 the calibration constants are not    *)
(* kept by the driver: a temperature or pressure read that follows an      *)
(* earlier one reads calibration registers from the device again (with the *)
(* data registers unchanged, the same ones in the same order as the call   *)
(* of that getter before it), it writes none of them, and their bytes are  *)
(* the same after the call as before.                                      *)
(***************************************************************************)
C24_CalibrationReread ==
    [][LaterReading
          => /\ CalReadsOf(cls, log') # <<>>
             /\ last'.op = last.op => CalReadsOf(cls, log') = CalReadsOf(cls, log)
             /\ \A i \in 1 .. Len(log') : log'[i].t = "write" => log'[i].a \notin CalRegs(cls)
             /\ \A r \in CalRegs(cls) \cap DOMAIN mem : mem'[r] = mem[r]]_vars

\* the second of two reads: its log fetches calibration registers
C24_Witness ==
    /\ phase = "ready"
    /\ cls = "BMP390"
    /\ nops = 2
    /\ last.op = "pressure"
    /\ RawPressureNow = 0
    /\ Len(CalReadsOf(cls, log)) = Len(TempCalReads390) + Len(PressCalReads390)

(***************************************************************************)
(* Frame of the BMP280 setters (Spec).                                     *)
(***************************************************************************)
OversampleSetters == {"pressure_oversample_rate=", "temperature_oversample_rate="}

\* a successful call of a BMP280 oversample-rate setter
OversampleCall280 ==
    /\ Acted
    /\ cls = "BMP280"
    /\ last'.op \in OversampleSetters
    /\ last'.exc = None

(***************************************************************************)
(* C25.  On BMP280 a successful pressure_oversample_rate or                *)
(* temperature_oversample_rate setter leaves the config register 0xF5,     *)
(* and so the IIR coefficient read back, as it was.                        *)
(* The code breaks this: both setters write 0x00 to the config register    *)
(* before they write the control register, which resets the coefficient.   *)
(***************************************************************************)
C25_OversampleKeepsConfig ==
    [][OversampleCall280
          => /\ CBitsGet(mem', _config_register) = CBitsGet(mem, _config_register)
             /\ iir_coefficient_get(cls, [mem |-> mem', log |-> <<>>]).ret
                   = iir_coefficient_get(cls, Bus0).ret]_vars

\* the operations of a BMP280 handle that the register frame covers
FramedOps280 ==
    {"construct", "power_mode", "power_mode=", "pressure_oversample_rate",
     "pressure_oversample_rate=", "temperature_oversample_rate",
     "temperature_oversample_rate=", "iir_coefficient", "iir_coefficient=",
     "pressure", "temperature", "altitude", "sea_level_pressure"}

(***************************************************************************)
(* C26.  No operation on a BMP280 handle (construction, the power_mode,    *)
(* oversample-rate and iir_coefficient setters, the getters) writes a      *)
(* register other than the control register 0xF4 and the config register   *)
(* 0xF5; none writes the BMP581 addresses 0x31 or 0x37.                    *)
(* The code breaks this: the iir_coefficient setter BMP280 inherits writes *)
(* _iir_temp_coefficient, a field BMP280 does not override, at 0x31.       *)
(***************************************************************************)
C26_Bmp280WritesOwnRegisters ==
    (cls = "BMP280" /\ last.op \in FramedOps280)
        => \A i \in 1 .. Len(log) :
              log[i].t = "write"
                 => log[i].a \in {_control_register.reg, _config_register.reg}

\* the bits of a byte selected by a mask
Masked(byte, mask) == BitAnd(byte, mask)

(***************************************************************************)
(* C27.  On BMP280 a successful pressure_oversample_rate setter changes    *)
(* only bits 4..2 of the control register 0xF4 and a successful            *)
(* temperature_oversample_rate setter only bits 7..5: the power-mode bits  *)
(* 1..0 and the other channel's oversample field keep their values.        *)
(***************************************************************************)
C27_OversampleFrame ==
    [][OversampleCall280
          => LET before == CBitsGet(mem, _control_register)
                 after == CBitsGet(mem', _control_register)
             IN  /\ last'.op = "pressure_oversample_rate="
                       => Masked(after, 227) = Masked(before, 227)      \* 0xE3
                 /\ last'.op = "temperature_oversample_rate="
                       => Masked(after, 31) = Masked(before, 31)        \* 0x1F
                 /\ CBitsGet(mem', _power_mode(cls)) = CBitsGet(mem, _power_mode(cls))]_vars

\* the pressure rate raised with the temperature rate and NORMAL mode kept
C27_Witness ==
    /\ phase = "ready"
    /\ cls = "BMP280"
    /\ last.op = "pressure_oversample_rate="
    /\ last.arg = OSR16
    /\ last.exc = None
    /\ CBitsGet(mem, _pressure_oversample_rate(cls)) = 5
    /\ CBitsGet(mem, _temperature_oversample_rate(cls)) = 1
    /\ PowerModeField = BMP280_NORMAL_POWER

\* what each getter of the configuration returns now
GetterOutcomes ==
    {power_mode_get(cls, Bus0), pressure_oversample_rate_get(cls, Bus0),
     temperature_oversample_rate_get(cls, Bus0), iir_coefficient_get(cls, Bus0)}

(***************************************************************************)
(* C28.  On every class, in every state reached from chip reset by a       *)
(* successful construction and any sequence of setter calls with any       *)
(* arguments, the fields read by the getters power_mode,                   *)
(* pressure_oversample_rate, temperature_oversample_rate and               *)
(* iir_coefficient index inside the getters' name tables: no getter raises *)
(* IndexError.                                                             *)
(***************************************************************************)
C28_GettersInRange ==
    phase = "ready"
        => /\ \A o \in GetterOutcomes : o.exc = None
           /\ CBitsGet(mem, _power_mode(cls)) < Len(power_mode_names(cls))
           /\ CBitsGet(mem, _pressure_oversample_rate(cls)) < Len(oversample_rate_names(cls))
           /\ CBitsGet(mem, _temperature_oversample_rate(cls)) < Len(oversample_rate_names(cls))
           /\ CBitsGet(mem, _iir_coefficient(cls)) < Len(iir_coefficient_names)
           /\ last.op \in {"power_mode", "pressure_oversample_rate",
                           "temperature_oversample_rate", "iir_coefficient"}
                 => last.exc = None

\* BMP390 holds the last code of its three-name table and the getter is read
C28_Witness ==
    /\ phase = "ready"
    /\ cls = "BMP390"
    /\ nops = 2
    /\ last.op = "power_mode"
    /\ PowerModeField = 2
    /\ last.ret = "NORMAL"

(***************************************************************************)
(* C29.  On BMP581 and BMP585, after a successful construction and after   *)
(* every completed operation, the pressure-channel IIR field and the       *)
(* temperature-channel IIR field hold the same value, the one the          *)
(* iir_coefficient getter reports.                                         *)
(***************************************************************************)
C29_FiltersAgree ==
    (phase = "ready" /\ cls \in {"BMP581", "BMP585"})
        => /\ CBitsGet(mem, _iir_coefficient(cls)) = CBitsGet(mem, _iir_temp_coefficient(cls))
           /\ iir_coefficient_get(cls, Bus0).ret
                 = iir_coefficient_names[CBitsGet(mem, _iir_temp_coefficient(cls)) + 1]

C29_Witness ==
    /\ phase = "ready"
    /\ cls = "BMP585"
    /\ last.op = "iir_coefficient="
    /\ last.arg = COEF_127
    /\ last.exc = None
    /\ CBitsGet(mem, _iir_coefficient(cls)) = 7
    /\ CBitsGet(mem, _iir_temp_coefficient(cls)) = 7

ReadOnlyOps ==
    {"pressure", "temperature", "altitude", "power_mode", "pressure_oversample_rate",
     "temperature_oversample_rate", "iir_coefficient", "sea_level_pressure", "config"}

(***************************************************************************)
(* C30.  On every class the read-only operations (the pressure,            *)
(* temperature and altitude getters, the getters of power_mode, of the     *)
(* oversample rates, of iir_coefficient and of sea_level_pressure, and the *)
(* config dump) issue no register write: every device register holds the  *)
(* same value after the call as before it.                                 *)
(***************************************************************************)
C30_ReadOnlyOperations ==
    [][(Acted /\ last'.op \in ReadOnlyOps)
          => /\ Writes(log') = <<>>
             /\ mem' = mem]_vars

\* a config dump on a device with a sample in its data registers
C30_Witness ==
    /\ phase = "ready"
    /\ last.op = "config"
    /\ last.exc = None
    /\ RawPressureNow # 0
    /\ Len(Reads(log)) >= 8
    /\ Writes(log) = <<>>

====
